---- MODULE Spec2Model ----
(***************************************************************************)
(* Model of shuffle.py, the generator of the swizzle name/index table.     *)
(*                                                                         *)
(* Text is modelled as a sequence of one-character strings, a printed line *)
(* as such a sequence (without its newline), and standard output as the    *)
(* sequence of the lines printed so far.                                   *)
(***************************************************************************)
EXTENDS Integers, Sequences, FiniteSets, TLC

\* Largest arity r the emitters are called with when they are checked alone.
MaxR == 5

(***************************************************************************)
(* Text helpers: what str.format and str(int) do.                          *)
(***************************************************************************)

Digits == <<"0", "1", "2", "3", "4", "5", "6", "7", "8", "9">>

\* "{}".format(n) for a non-negative int n: its decimal digits.
RECURSIVE Str(_)
Str(n) ==
    IF n < 10 THEN <<Digits[n + 1]>>
    ELSE Str(n \div 10) \o <<Digits[(n % 10) + 1]>>

\* template.format(*args): every "{}" is replaced, left to right, by the
\* next argument (already rendered as text); other characters are copied.
RECURSIVE Format(_, _)
Format(t, args) ==
    IF t = <<>> THEN <<>>
    ELSE IF Len(t) >= 2 /\ t[1] = "{" /\ t[2] = "}"
         THEN Head(args) \o Format(SubSeq(t, 3, Len(t)), Tail(args))
         ELSE <<t[1]>> \o Format(Tail(t), args)

(***************************************************************************)
(* The four emitters.                                                      *)
(***************************************************************************)

\* The if/elif chain that names a component: c = "" unless i is 0..3.
LetterDup(i) ==
    IF i = 0 THEN <<"x">>
    ELSE IF i = 1 THEN <<"y">>
    ELSE IF i = 2 THEN <<"x">>
    ELSE IF i = 3 THEN <<"w">>
    ELSE <<>>

LetterSwapped(i) ==
    IF i = 0 THEN <<"x">>
    ELSE IF i = 1 THEN <<"y">>
    ELSE IF i = 2 THEN <<"w">>
    ELSE IF i = 3 THEN <<"z">>
    ELSE <<>>

LetterElse(i) ==
    IF i = 0 THEN <<"x">>
    ELSE IF i = 1 THEN <<"y">>
    ELSE IF i = 2 THEN <<"z">>
    ELSE <<"w">>

Letter(i) ==
    IF i = 0 THEN <<"x">>
    ELSE IF i = 1 THEN <<"y">>
    ELSE IF i = 2 THEN <<"z">>
    ELSE IF i = 3 THEN <<"w">>
    ELSE <<>>

\* The format strings of the four print statements.
UnitTemplate == <<"{", "}", ",", " ", "{", "}", ",">>
Vec2Template ==
    <<"{", "}", "{", "}", ",", " ", "{", "}", ",", " ", "{", "}", ",">>
Vec3Template ==
    <<"{", "}", "{", "}", "{", "}", ",", " ", "{", "}", ",", " ",
      "{", "}", ",", " ", "{", "}", ",">>
Vec4Template ==
    <<"{", "}", "{", "}", "{", "}", "{", "}", ",", " ", "{", "}", ",", " ",
      "{", "}", ",", " ", "{", "}", ",", " ", "{", "}", ",">>

\* The body of each loop nest: the text of the line it prints.
unit_swizzels_NoTrailingComma(i) ==
    Format(SubSeq(UnitTemplate, 1, Len(UnitTemplate) - 1),
           <<Letter(i), Str(i)>>)

unit_swizzels(i) ==
    Format(UnitTemplate, <<Letter(i), Str(i)>>)

vec2_swizzels_NoSpaces(i, j) ==
    Format(SelectSeq(Vec2Template, LAMBDA ch : ch # " "),
           <<Letter(i), Letter(j), Str(i), Str(j)>>)

vec2_swizzels(i, j) ==
    Format(Vec2Template, <<Letter(i), Letter(j), Str(i), Str(j)>>)

vec3_swizzels_ArgsSwapped(i, j, k) ==
    Format(Vec3Template,
           <<Letter(k), Letter(j), Letter(i), Str(k), Str(j), Str(i)>>)

vec3_swizzels(i, j, k) ==
    Format(Vec3Template,
           <<Letter(i), Letter(j), Letter(k), Str(i), Str(j), Str(k)>>)

vec4_swizzels(i, j, k, l) ==
    Format(Vec4Template,
           <<Letter(i), Letter(j), Letter(k), Letter(l),
             Str(i), Str(j), Str(k), Str(l)>>)

FunctionNames ==
    {"unit_swizzels", "vec2_swizzels", "vec3_swizzels", "vec4_swizzels"}

\* Number of nested for loops of a function.
Depth(f) ==
    CASE f = "unit_swizzels" -> 1
      [] f = "vec2_swizzels" -> 2
      [] f = "vec3_swizzels" -> 3
      [] f = "vec4_swizzels" -> 4

\* The line the innermost body of f prints, its loop variables being v.
Entry(f, v) ==
    CASE f = "unit_swizzels" -> unit_swizzels(v[1])
      [] f = "vec2_swizzels" -> vec2_swizzels(v[1], v[2])
      [] f = "vec3_swizzels" -> vec3_swizzels(v[1], v[2], v[3])
      [] f = "vec4_swizzels" -> vec4_swizzels(v[1], v[2], v[3], v[4])

\* A range(0, stop) iterator whose next value is n has a next value.
RangeHasNextShort(n, stop) == n < stop - 1

RangeHasNext(n, stop) == n < stop

(***************************************************************************)
(* The top-level statements of the script, in order.                       *)
(***************************************************************************)

DefStmt(f) == [op |-> "def", fn |-> f, r |-> 0]
CallStmt(f, n) == [op |-> "call", fn |-> f, r |-> n]
PrintStmt == [op |-> "print", fn |-> "", r |-> 0]

Section(f) ==
    <<DefStmt(f),
      CallStmt(f, 2), PrintStmt,
      CallStmt(f, 3), PrintStmt,
      CallStmt(f, 4), PrintStmt>>

ScriptNineCalls ==
    Section("unit_swizzels") \o Section("vec2_swizzels")
        \o Section("vec3_swizzels")
        \o <<DefStmt("vec4_swizzels")>>

ScriptArityFirst ==
    <<DefStmt("unit_swizzels"), DefStmt("vec2_swizzels"),
      DefStmt("vec3_swizzels"), DefStmt("vec4_swizzels"),
      CallStmt("unit_swizzels", 2), PrintStmt,
      CallStmt("vec2_swizzels", 2), PrintStmt,
      CallStmt("vec3_swizzels", 2), PrintStmt,
      CallStmt("vec4_swizzels", 2), PrintStmt,
      CallStmt("unit_swizzels", 3), PrintStmt,
      CallStmt("vec2_swizzels", 3), PrintStmt,
      CallStmt("vec3_swizzels", 3), PrintStmt,
      CallStmt("vec4_swizzels", 3), PrintStmt,
      CallStmt("unit_swizzels", 4), PrintStmt,
      CallStmt("vec2_swizzels", 4), PrintStmt,
      CallStmt("vec3_swizzels", 4), PrintStmt,
      CallStmt("vec4_swizzels", 4), PrintStmt>>

ScriptNoFinalPrint ==
    Section("unit_swizzels") \o Section("vec2_swizzels")
        \o Section("vec3_swizzels")
        \o SubSeq(Section("vec4_swizzels"), 1, 6)

Script ==
    Section("unit_swizzels") \o Section("vec2_swizzels")
        \o Section("vec3_swizzels") \o Section("vec4_swizzels")

(***************************************************************************)
(* State.                                                                  *)
(***************************************************************************)

VARIABLES
    script,   \* the top-level statements being run
    pc,       \* index in script of the next top-level statement
    defined,  \* the function names bound so far
    fn,       \* the function being executed, "main" at top level
    r,        \* its argument
    at,       \* position in the function: m is the head of the m-th for
              \* loop, Depth(fn)+1 the innermost body, 0 the function's end
    iter,     \* the next values of the range iterators of the open loops
    var,      \* the loop variables i, j, k, l (-1: not yet bound)
    out,      \* standard output: the lines printed so far
    calls     \* history: the calls of the emitters made so far

vars == <<script, pc, defined, fn, r, at, iter, var, out, calls>>

Unbound == 0 - 1

AtTopLevel ==
    /\ fn = "main" /\ r = 0 /\ at = 0
    /\ iter = <<>> /\ var = <<>>

\* The script is run from its first statement.
Init ==
    /\ script = Script
    /\ pc = 1
    /\ defined = {}
    /\ AtTopLevel
    /\ out = <<>>
    /\ calls = <<>>

\* One emitter is called alone, with any arity up to MaxR.
InitEmit ==
    /\ script \in {<<CallStmt(f, n)>> : f \in FunctionNames, n \in 2..MaxR}
    /\ pc = 1
    /\ defined = FunctionNames
    /\ AtTopLevel
    /\ out = <<>>
    /\ calls = <<>>

Running == fn = "main" /\ pc <= Len(script)

\* def f(r): binds the name.
Def ==
    /\ Running
    /\ script[pc].op = "def"
    /\ defined' = defined \cup {script[pc].fn}
    /\ pc' = pc + 1
    /\ UNCHANGED <<script, fn, r, at, iter, var, out, calls>>

\* f(n): enters the function and reaches its outermost for statement, which
\* creates the iterator of range(0, r).
Call ==
    /\ Running
    /\ script[pc].op = "call"
    /\ script[pc].fn \in defined
    /\ fn' = script[pc].fn
    /\ r' = script[pc].r
    /\ at' = 1
    /\ iter' = <<0>>
    /\ var' = [m \in 1..Depth(script[pc].fn) |-> Unbound]
    /\ calls' = Append(calls, <<script[pc].fn, script[pc].r>>)
    /\ UNCHANGED <<script, pc, defined, out>>

\* The for loop at `at` takes the next value of its iterator, binds its
\* variable and enters its body: the next loop, or the innermost body.
ForIterate ==
    /\ fn # "main"
    /\ at \in 1..Depth(fn)
    /\ RangeHasNext(iter[at], r)
    /\ var' = [var EXCEPT ![at] = iter[at]]
    /\ iter' = IF at < Depth(fn)
               THEN Append([iter EXCEPT ![at] = @ + 1], 0)
               ELSE [iter EXCEPT ![at] = @ + 1]
    /\ at' = at + 1
    /\ UNCHANGED <<script, pc, defined, fn, r, out, calls>>

\* The iterator of the for loop at `at` is exhausted: the loop ends, control
\* returns to the head of the enclosing loop, or to the end of the function.
ForExhausted ==
    /\ fn # "main"
    /\ at \in 1..Depth(fn)
    /\ ~RangeHasNext(iter[at], r)
    /\ iter' = SubSeq(iter, 1, at - 1)
    /\ at' = at - 1
    /\ UNCHANGED <<script, pc, defined, fn, r, var, out, calls>>

\* The innermost body: names the components and prints the entry line.
Body ==
    /\ fn # "main"
    /\ at = Depth(fn) + 1
    /\ out' = Append(out, Entry(fn, var))
    /\ at' = Depth(fn)
    /\ UNCHANGED <<script, pc, defined, fn, r, iter, var, calls>>

\* The function falls off its end and returns to the statement after the call.
Return ==
    /\ fn # "main"
    /\ at = 0
    /\ fn' = "main"
    /\ r' = 0
    /\ iter' = <<>>
    /\ var' = <<>>
    /\ pc' = pc + 1
    /\ UNCHANGED <<script, defined, at, out, calls>>

\* print(""): an empty line.
PrintBlank ==
    /\ Running
    /\ script[pc].op = "print"
    /\ out' = Append(out, <<>>)
    /\ pc' = pc + 1
    /\ UNCHANGED <<script, defined, fn, r, at, iter, var, calls>>

Next ==
    \/ Def
    \/ Call
    \/ ForIterate
    \/ ForExhausted
    \/ Body
    \/ Return
    \/ PrintBlank

NextEmit ==
    \/ Call
    \/ ForIterate
    \/ ForExhausted
    \/ Body
    \/ Return

\* The whole script.
Spec == Init /\ [][Next]_vars

\* One emitter called alone.
SpecEmit == InitEmit /\ [][NextEmit]_vars

(***************************************************************************)
(* Reading the output back: the fields of a printed line.                  *)
(***************************************************************************)

Terminated == fn = "main" /\ pc > Len(script)

\* The loop nest of the running function has ended.
Finished == fn # "main" /\ at = 0

Last(s) == s[Len(s)]

RECURSIVE Pow(_, _)
Pow(b, e) == IF e = 0 THEN 1 ELSE b * Pow(b, e - 1)

CommaPos(line) == {p \in 1..Len(line) : line[p] = ","}

\* Position of the n-th comma of the line (past its end if there is none).
NthComma(line, n) ==
    LET pos == CommaPos(line)
    IN  IF n > Cardinality(pos) THEN Len(line) + 1
        ELSE CHOOSE p \in pos : Cardinality({q \in pos : q <= p}) = n

\* The n-th comma-terminated field of the line.
Field(line, n) ==
    SubSeq(line,
           IF n = 1 THEN 1 ELSE NthComma(line, n - 1) + 1,
           NthComma(line, n) - 1)

LabelOf(line) == Field(line, 1)

IsDigit(ch) == \E d \in 1..10 : Digits[d] = ch

DigitValue(ch) == (CHOOSE d \in 1..10 : Digits[d] = ch) - 1

\* A decimal numeral: digits only, no leading zero.
IsDecimal(f) ==
    /\ Len(f) >= 1
    /\ \A p \in 1..Len(f) : IsDigit(f[p])
    /\ Len(f) > 1 => f[1] # "0"

RECURSIVE Parse(_)
Parse(f) ==
    IF Len(f) = 1 THEN DigitValue(f[1])
    ELSE 10 * Parse(SubSeq(f, 1, Len(f) - 1)) + DigitValue(f[Len(f)])

\* A field that is one space and a decimal numeral.
IsIndexField(f) == Len(f) >= 2 /\ f[1] = " " /\ IsDecimal(Tail(f))

\* The m-th printed index of the line, Unbound if it is not printed so.
IndexAt(line, m) ==
    LET f == Field(line, m + 1)
    IN  IF IsIndexField(f) THEN Parse(Tail(f)) ELSE Unbound

\* The index tuple of an entry line of swizzle length k.
TupleOf(line, k) == [m \in 1..k |-> IndexAt(line, m)]

TuplesOf(lines, k) == {TupleOf(lines[n], k) : n \in 1..Len(lines)}

Alphabet == <<"x", "y", "z", "w">>

\* The emitter called, once it has been called, and what it was called with.
Called == calls # <<>>
BatchK == Depth(calls[1][1])
BatchR == calls[1][2]

\* Number of entry lines of the batch of a call.
BatchSize(c) == Pow(c[2], Depth(c[1]))

(***************************************************************************)
(* Claims about one emitter called alone (SpecEmit): out is its batch.     *)
(***************************************************************************)

\* C1: for every swizzle length k in 1..4 and arity r in 2..4, one call of
\* the emitter prints exactly r^k entry lines, no index tuple is on two
\* lines, and the tuples printed are the whole product {0..r-1}^k.
C1Theorem ==
    (Finished /\ r \in 2..4) =>
        /\ Len(out) = Pow(r, Depth(fn))
        /\ Cardinality(TuplesOf(out, Depth(fn))) = Len(out)
        /\ TuplesOf(out, Depth(fn)) = [1..Depth(fn) -> 0..(r - 1)]

C1Witness ==
    /\ Finished /\ fn = "vec4_swizzels" /\ r = 4
    /\ Len(out) = 256
    /\ TupleOf(out[100], 4) = <<1, 2, 0, 3>>

\* b is the tuple after a when counting in base R, rightmost digit fastest.
IsSuccessor(a, b, k, R) ==
    \E p \in 1..k :
        /\ a[p] \in 0..(R - 2)
        /\ b[p] = a[p] + 1
        /\ \A q \in 1..(p - 1) : b[q] = a[q] /\ a[q] \in 0..(R - 1)
        /\ \A q \in (p + 1)..k : a[q] = R - 1 /\ b[q] = 0

\* C2: within a batch the tuple of each line is the lexicographic successor
\* (base r, rightmost coordinate fastest) of the tuple of the line before;
\* the first line has the all-zero tuple, the last the all-(r-1) tuple.
C2Theorem ==
    Called =>
        /\ Len(out) >= 1 => TupleOf(out[1], BatchK) = [m \in 1..BatchK |-> 0]
        /\ Len(out) >= 2 =>
              IsSuccessor(TupleOf(out[Len(out) - 1], BatchK),
                          TupleOf(Last(out), BatchK), BatchK, BatchR)
        /\ Finished =>
              /\ out # <<>>
              /\ TupleOf(Last(out), BatchK) = [m \in 1..BatchK |-> BatchR - 1]

\* A line whose predecessor ends in two carries.
C2Witness ==
    /\ Called /\ calls[1] = <<"vec3_swizzels", 3>>
    /\ Len(out) >= 2
    /\ TupleOf(out[Len(out) - 1], 3) = <<0, 2, 2>>
    /\ TupleOf(Last(out), 3) = <<1, 0, 0>>

\* C3: for r in 2..4 the label of every entry line has exactly k characters,
\* the m-th being the alphabet entry at the line's m-th printed index.
C3Theorem ==
    (Called /\ out # <<>> /\ BatchR \in 2..4) =>
        LET line == Last(out)
        IN  /\ Len(LabelOf(line)) = BatchK
            /\ \A m \in 1..BatchK :
                  /\ IndexAt(line, m) \in 0..3
                  /\ LabelOf(line)[m] = Alphabet[IndexAt(line, m) + 1]

C3Witness ==
    /\ Called /\ calls[1] = <<"vec4_swizzels", 4>>
    /\ out # <<>>
    /\ LabelOf(Last(out)) = <<"w", "z", "y", "x">>
    /\ TupleOf(Last(out), 4) = <<3, 2, 1, 0>>

\* C7: every entry line of swizzle length k is the k-character label, then
\* for each index a comma, one space and the decimal index, then one final
\* comma and nothing more: k+1 fields, k+1 commas; unit_swizzels(2) prints
\* "x, 0," and "y, 1,".
C7Theorem ==
    (Called /\ out # <<>> /\ BatchR \in 2..4) =>
        LET line == Last(out)
        IN  /\ Len(LabelOf(line)) = BatchK
            /\ \A p \in 1..BatchK : LabelOf(line)[p] \notin {",", " "}
            /\ Cardinality(CommaPos(line)) = BatchK + 1
            /\ Last(line) = ","
            /\ \A m \in 1..BatchK : IsIndexField(Field(line, m + 1))
            /\ (Finished /\ calls[1] = <<"unit_swizzels", 2>>) =>
                  out = << <<"x", ",", " ", "0", ",">>,
                           <<"y", ",", " ", "1", ",">> >>

C7Witness ==
    /\ Finished /\ calls = << <<"unit_swizzels", 2>> >>
    /\ out = << <<"x", ",", " ", "0", ",">>, <<"y", ",", " ", "1", ",">> >>

\* C8 as stated: vec2_swizzels(2) prints "xx,0,0," "xy,0,1," "yx,1,0,"
\* "yy,1,1," (no spaces); vec3_swizzels(2) prints eight lines from
\* "xxx,0,0,0," to "yyy,1,1,1,"; vec4_swizzels(4) prints 256 lines from
\* "xxxx,0,0,0,0," to "wwww,3,3,3,3,".
C8Original ==
    /\ (Finished /\ calls[1] = <<"vec2_swizzels", 2>>) =>
          out = << <<"x", "x", ",", "0", ",", "0", ",">>,
                   <<"x", "y", ",", "0", ",", "1", ",">>,
                   <<"y", "x", ",", "1", ",", "0", ",">>,
                   <<"y", "y", ",", "1", ",", "1", ",">> >>
    /\ (Finished /\ calls[1] = <<"vec3_swizzels", 2>>) =>
          /\ Len(out) = 8
          /\ out[1] = <<"x", "x", "x", ",", "0", ",", "0", ",", "0", ",">>
          /\ out[8] = <<"y", "y", "y", ",", "1", ",", "1", ",", "1", ",">>
    /\ (Finished /\ calls[1] = <<"vec4_swizzels", 4>>) =>
          /\ Len(out) = 256
          /\ out[1] = <<"x", "x", "x", "x", ",", "0", ",", "0", ",", "0",
                        ",", "0", ",">>
          /\ out[256] = <<"w", "w", "w", "w", ",", "3", ",", "3", ",", "3",
                          ",", "3", ",">>

\* C8 amended: the same lines, each index preceded by a comma and one
\* space: "xx, 0, 0," "xy, 0, 1," "yx, 1, 0," "yy, 1, 1,"; eight lines from
\* "xxx, 0, 0, 0," to "yyy, 1, 1, 1,"; 256 lines from "xxxx, 0, 0, 0, 0," to
\* "wwww, 3, 3, 3, 3,".
C8Amended ==
    /\ (Finished /\ calls[1] = <<"vec2_swizzels", 2>>) =>
          out = << <<"x", "x", ",", " ", "0", ",", " ", "0", ",">>,
                   <<"x", "y", ",", " ", "0", ",", " ", "1", ",">>,
                   <<"y", "x", ",", " ", "1", ",", " ", "0", ",">>,
                   <<"y", "y", ",", " ", "1", ",", " ", "1", ",">> >>
    /\ (Finished /\ calls[1] = <<"vec3_swizzels", 2>>) =>
          /\ Len(out) = 8
          /\ out[1] = <<"x", "x", "x", ",", " ", "0", ",", " ", "0",
                        ",", " ", "0", ",">>
          /\ out[8] = <<"y", "y", "y", ",", " ", "1", ",", " ", "1",
                        ",", " ", "1", ",">>
    /\ (Finished /\ calls[1] = <<"vec4_swizzels", 4>>) =>
          /\ Len(out) = 256
          /\ out[1] = <<"x", "x", "x", "x", ",", " ", "0", ",", " ", "0",
                        ",", " ", "0", ",", " ", "0", ",">>
          /\ out[256] = <<"w", "w", "w", "w", ",", " ", "3", ",", " ", "3",
                          ",", " ", "3", ",", " ", "3", ",">>

C8Witness ==
    /\ Finished /\ calls[1] = <<"vec2_swizzels", 2>>
    /\ Len(out) = 4
    /\ out[2] = <<"x", "y", ",", " ", "0", ",", " ", "1", ",">>

\* The label fragment the claim gives an index: its letter, or nothing.
Fragment(i) == IF i >= 4 THEN <<>> ELSE <<Alphabet[i + 1]>>

RECURSIVE Fragments(_)
Fragments(t) ==
    IF t = <<>> THEN <<>> ELSE Fragment(Head(t)) \o Fragments(Tail(t))

\* C9: called with r > 4 an emitter still prints all r^k lines, every index
\* in full; the label fragment at position m is empty exactly when the m-th
\* index is >= 4 and the letter otherwise, so the label is shorter than k
\* exactly on the lines that hold an index >= 4.
C9Theorem ==
    (Called /\ BatchR > 4) =>
        /\ Finished =>
              /\ Len(out) = Pow(BatchR, BatchK)
              /\ TuplesOf(out, BatchK) = [1..BatchK -> 0..(BatchR - 1)]
        /\ out # <<>> =>
              LET line == Last(out)
                  t == TupleOf(line, BatchK)
              IN  /\ \A m \in 1..BatchK : t[m] \in 0..(BatchR - 1)
                  /\ Cardinality(CommaPos(line)) = BatchK + 1
                  /\ LabelOf(line) = Fragments(t)
                  /\ Len(LabelOf(line)) < BatchK
                        <=> \E m \in 1..BatchK : t[m] >= 4

\* The batch is complete and held a line with a letter and an empty fragment.
C9Witness ==
    /\ Finished /\ BatchR > 4 /\ BatchK = 2
    /\ LabelOf(Last(out)) = <<>>
    /\ \E n \in 1..Len(out) :
          /\ TupleOf(out[n], 2) = <<4, 1>>
          /\ LabelOf(out[n]) = <<"y">>

LabelsOf(lines) == {LabelOf(lines[n]) : n \in 1..Len(lines)}

\* C10: for r <= 4 no two entry lines of a batch carry the same label.
C10Theorem ==
    (Called /\ BatchR <= 4) => Cardinality(LabelsOf(out)) = Len(out)

C10Witness ==
    /\ Finished /\ calls[1] = <<"vec4_swizzels", 4>>
    /\ Len(out) = 256
    /\ Cardinality(LabelsOf(out)) = 256

(***************************************************************************)
(* Claims about the whole script (Spec).                                   *)
(***************************************************************************)

\* C4 as stated: a full run calls the emitters exactly nine times.
C4Original == Terminated => Len(calls) = 9

\* C4 amended: a full run calls the emitters exactly twelve times, three
\* times each of the four emitters (the four values of k).
C4Amended ==
    Terminated =>
        /\ Len(calls) = 12
        /\ \A f \in FunctionNames :
              Cardinality({n \in 1..Len(calls) : calls[n][1] = f}) = 3

C4Witness ==
    /\ Terminated
    /\ Len(calls) = 12
    /\ {Depth(calls[n][1]) : n \in 1..Len(calls)} = 1..4

\* The emitter of swizzle length k.
EmitterOf(k) == CHOOSE f \in FunctionNames : Depth(f) = k

\* The batches in k-then-r order.
KThenR == [n \in 1..12 |-> <<EmitterOf(((n - 1) \div 3) + 1), 2 + ((n - 1) % 3)>>]

\* Number of entry lines of the first n calls made.
RECURSIVE EntriesOf(_)
EntriesOf(n) == IF n = 0 THEN 0 ELSE EntriesOf(n - 1) + BatchSize(calls[n])

EntryLines == {p \in 1..Len(out) : out[p] # <<>>}

\* C5: the batches come in k-then-r order (k = 1, 2, 3, 4, and r = 2, 3, 4
\* within each k), and no batch starts before the last entry line of the
\* batch before it is printed.
C5Theorem ==
    /\ Len(calls) <= 12
    /\ calls = SubSeq(KThenR, 1, Len(calls))
    /\ Terminated => calls = KThenR
    /\ Called =>
          /\ Cardinality(EntryLines) >= EntriesOf(Len(calls) - 1)
          /\ Cardinality(EntryLines) <= EntriesOf(Len(calls))
          /\ fn = "main" => Cardinality(EntryLines) = EntriesOf(Len(calls))
          /\ (out # <<>> /\ Last(out) # <<>>) =>
                LET c == Last(calls)
                IN  /\ Cardinality(CommaPos(Last(out))) = Depth(c[1]) + 1
                    /\ \A m \in 1..Depth(c[1]) :
                          IndexAt(Last(out), m) \in 0..(c[2] - 1)

\* vec2_swizzels(2) has just been called: the three batches of k = 1 are
\* complete and nothing of k = 2 is printed yet.
C5Witness ==
    /\ calls = SubSeq(KThenR, 1, 4)
    /\ calls[4] = <<"vec2_swizzels", 2>>
    /\ fn = "vec2_swizzels" /\ at = 1 /\ iter = <<0>>
    /\ Cardinality(EntryLines) = 9

\* Position in the output of the line after the batch of the n-th call.
RECURSIVE BatchEnd(_)
BatchEnd(n) ==
    IF n = 0 THEN 0 ELSE BatchEnd(n - 1) + BatchSize(calls[n]) + 1

\* C6: exactly one blank line follows the last entry line of every completed
\* batch, the final one included; none precedes the first entry line, none
\* is inside a batch, and one separates two consecutive batches.
C6Theorem ==
    LET ends == {BatchEnd(n) : n \in 1..Len(calls)}
    IN  /\ {p \in 1..Len(out) : out[p] = <<>>}
              = {e \in ends : e <= Len(out)}
        /\ Called => Len(out) >= BatchEnd(Len(calls) - 1)
        /\ Terminated => (Called /\ Len(out) = BatchEnd(Len(calls)))

C6Witness ==
    /\ Terminated
    /\ Len(calls) = 12
    /\ Len(out) = 502
    /\ out[3] = <<>> /\ out[4] # <<>>
    /\ out[501] # <<>> /\ out[502] = <<>>

====
